---- MODULE Spec2Model ----
(***************************************************************************)
(* Model of the TMP tool-discovery engine of arrissa-data:                 *)
(*   app/tmp_embeddings.py  FAISSToolIndex, the module-level _faiss_index, *)
(*                          get_faiss_index, rebuild_faiss_index           *)
(*   app/tmp_routes.py      the /tmp/search, /tmp/tools, /tmp/tools/batch  *)
(*                          and /tmp/reindex handlers                      *)
(*                                                                         *)
(* Request handlers run on the threads of the Flask server (main.py:63,    *)
(* app.run, threaded).  A step of the model is one statement of a handler  *)
(* that reads or writes shared state (the catalogue table, the global      *)
(* _faiss_index, the fields of a FAISSToolIndex object); purely local      *)
(* statements are folded into the shared step that follows them.           *)
(***************************************************************************)
EXTENDS Integers, Sequences, FiniteSets, TLC

VARIABLES
    catalogue,  \* rows of table asp_tools (TMPTool), in id order
    cur,        \* the module global _faiss_index: id of a heap object
    heap,       \* FAISSToolIndex objects by id
    pc,         \* per thread: position in its handler
    req,        \* per thread: the request being served
    tools,      \* per thread: tool_dicts read by rebuild_faiss_index
    self,       \* per thread: the object FAISSToolIndex.build runs on
    idx,        \* per thread: local idx of tmp_search / tmp_reindex
    hits,       \* per thread: raw (score, position) hits of index.search
    exc,        \* per thread: the exception being propagated
    resp,       \* per thread: the response of the finished request
    nreq,       \* number of requests received so far
    \* history, read by the properties only
    everBuilt,  \* a built index has been current at some moment
    began,      \* per thread: everBuilt held when its search began
    hadBuilt,   \* per thread: the global was built when it entered rebuild
    alone,      \* per thread: no other request in flight since its commit
                \* (since its arrival, for a search)
    \* app/smart_updater.py: the SmartUpdater singleton and its loop threads
    clock,          \* wall clock, in seconds
    events,         \* event_time of the rows of table economic_events
    enabled,        \* SmartUpdater._enabled
    stop_event,     \* SmartUpdater._stop_event is set
    thread,         \* SmartUpdater._thread: a loop thread id, or NoThread
    last_periodic,  \* SmartUpdater._last_periodic, or Never
    loop,           \* per loop thread: its position in _run_loop
    caller,         \* the enable/disable/start call in progress
    chased,         \* history: <<event_time, offset, time>> of every chase
    since,          \* history: time of the last start of a loop, or Never
    calls           \* number of enable/disable/start calls so far

shared == <<catalogue, cur, heap>>
locals == <<tools, self, idx, hits, exc>>
history == <<everBuilt, began, hadBuilt, alone>>
engine == <<catalogue, cur, heap, pc, req, tools, self, idx, hits, exc, resp, nreq,
            everBuilt, began, hadBuilt, alone>>
updater == <<clock, events, enabled, stop_event, thread, last_periodic, loop,
             caller, chased, since, calls>>
vars == <<catalogue, cur, heap, pc, req, tools, self, idx, hits, exc, resp, nreq,
          everBuilt, began, hadBuilt, alone,
          clock, events, enabled, stop_event, thread, last_periodic, loop,
          caller, chased, since, calls>>

\* ------------------------------------------------------------------ bounds
Threads == {"t1", "t2"}
NumObjs == Cardinality(Threads) + 1  \* the global and one reference per thread
MaxBatch == 2         \* entries of a batch import
MaxReqs == 2          \* requests the server receives
ObjIds == 1..NumObjs
NoObj == 0

\* ------------------------------------------------------------- data model
Names == {"a", "b"}
NoCategory == "None"

Tool(n, d, c, ex) == [name |-> n, description |-> d, category |-> c, examples |-> ex]

\* The tool definitions requests may submit.
ToolDefs ==
    { Tool("a", "d1", "trading", <<"buy">>),
      Tool("a", "d2", NoCategory, <<>>),
      Tool("b", "d1", "Info", <<"balance">>) }

\* A submitted definition whose name is blank after strip().
BlankTool == Tool("", "d1", NoCategory, <<>>)

RECURSIVE SeqNames(_)
SeqNames(s) == IF s = <<>> THEN {} ELSE {Head(s).name} \cup SeqNames(Tail(s))

\* Every catalogue content: rows with pairwise different names.
AllCatalogues ==
    {<<>>} \cup {<<x>> : x \in ToolDefs}
           \cup {p \in {<<x, y>> : x \in ToolDefs, y \in ToolDefs} : p[1].name # p[2].name}

DescText(tool) == [kind |-> "desc", name |-> tool.name, s |-> tool.description]
ExampleText(e) == [kind |-> "ex", name |-> "", s |-> e]

RECURSIVE MapSeq(_, _)
MapSeq(Op(_), s) == IF s = <<>> THEN <<>> ELSE <<Op(Head(s))>> \o MapSeq(Op, Tail(s))

RECURSIVE Repeat(_, _)
Repeat(x, n) == IF n <= 0 THEN <<>> ELSE <<x>> \o Repeat(x, n - 1)

\* build, lines 84-110: all_texts and all_mappings of a tool list.
ToolTexts(tool) == <<DescText(tool)>> \o MapSeq(ExampleText, tool.examples)
ToolMappingsExamplesOnly(tool) == Repeat(tool, Len(tool.examples))
ToolMappings(tool) == Repeat(tool, 1 + Len(tool.examples))

RECURSIVE AllTexts(_)
AllTexts(ts) == IF ts = <<>> THEN <<>> ELSE ToolTexts(Head(ts)) \o AllTexts(Tail(ts))

RECURSIVE AllMappings(_)
AllMappings(ts) == IF ts = <<>> THEN <<>> ELSE ToolMappings(Head(ts)) \o AllMappings(Tail(ts))

\* The embedding provider is deterministic: the vector of a text is
\* identified by the text; normalize_L2 keeps that identity.
Embed(text) == [of |-> text]
EmbedBatch(texts) == MapSeq(Embed, texts)

Dim == 384

\* FAISSToolIndex.__init__
FreshObj ==
    [built |-> FALSE, hasidx |-> FALSE, vecs |-> <<>>, index_to_tool |-> <<>>,
     dimension |-> 0, tool_count |-> 0]

\* --------------------------------------------------------------- search
\* Scores are cosine similarities in units of 1e-5 (100000 is 1.0).
ScoreUnit == 100000

Queries == {"buy", "zzz"}

\* Inner product of the normalised query vector and a stored vector.  A
\* text identical to the query has the same vector, so its score is 1.0.
Score(q, vec) ==
    LET t == vec.of IN
    IF t.kind = "ex" /\ t.s = q THEN ScoreUnit
    ELSE IF q = "buy" THEN
        (IF t.kind = "ex" THEN 20000
         ELSE IF t.name = "a" THEN (IF t.s = "d1" THEN 40000 ELSE 30005)
         ELSE 10000)
    ELSE (IF t.kind = "ex" THEN 5000 ELSE 0 - 2000)

\* round(score, 4): to the nearest multiple of 1e-4, an exact half to the
\* even multiple.
Round4(s) ==
    LET a == IF s < 0 THEN 0 - s ELSE s
        lo == a \div 10
        r == a % 10
        m == IF r > 5 \/ (r = 5 /\ lo % 2 = 1) THEN lo + 1 ELSE lo
    IN IF s < 0 THEN 0 - (m * 10) ELSE m * 10

Min(x, y) == IF x <= y THEN x ELSE y

\* IndexFlatIP.search: the k positions of highest score, best first (equal
\* scores by position).  Positions are 1-based here.
RECURSIVE TopHits(_, _, _, _)
TopHits(vecs, q, k, taken) ==
    LET left == (1..Len(vecs)) \ taken IN
    IF k <= 0 \/ left = {} THEN <<>>
    ELSE LET best == CHOOSE i \in left : \A j \in left :
                        \/ Score(q, vecs[i]) > Score(q, vecs[j])
                        \/ (Score(q, vecs[i]) = Score(q, vecs[j]) /\ i <= j)
         IN <<[score |-> Score(q, vecs[best]), pos |-> best]>>
                \o TopHits(vecs, q, k - 1, taken \cup {best})

FaissSearch(vecs, q, k) == TopHits(vecs, q, k, {})

\* search, line 144 and 167.
Lower(c) ==
    IF c = "TRADING" \/ c = "Trading" THEN "trading"
    ELSE IF c = "Info" \/ c = "INFO" THEN "info" ELSE c

\* The filter with a test for a missing category in front: a tool without
\* category passes every filter.
CategoryPassesUncategorised(category, tool) ==
    \/ category = NoCategory
    \/ tool.category = NoCategory
    \/ Lower(tool.category) = Lower(category)

CategoryPasses(category, tool) ==
    \/ category = NoCategory
    \/ Lower(IF tool.category = NoCategory THEN "" ELSE tool.category) = Lower(category)

SeenIndex(seen, name) ==
    IF \E i \in 1..Len(seen) : seen[i].tool.name = name
    THEN CHOOSE i \in 1..Len(seen) : seen[i].tool.name = name ELSE 0

\* The loop of search with `seen[name] = ...` run for every passing hit: the
\* last hit of a tool, not its best, is kept.
RECURSIVE DedupLast(_, _, _, _, _)
DedupLast(hs, mapping, threshold, category, seen) ==
    IF hs = <<>> THEN [err |-> FALSE, seen |-> seen]
    ELSE LET h == Head(hs) IN
         IF h.score < threshold THEN DedupLast(Tail(hs), mapping, threshold, category, seen)
         ELSE IF h.pos > Len(mapping) THEN [err |-> TRUE, seen |-> <<>>]
         ELSE LET tool == mapping[h.pos]
                  at == SeenIndex(seen, tool.name)
                  entry == [tool |-> tool, score |-> Round4(h.score)]
              IN IF ~CategoryPasses(category, tool)
                 THEN DedupLast(Tail(hs), mapping, threshold, category, seen)
                 ELSE IF at = 0
                 THEN DedupLast(Tail(hs), mapping, threshold, category, Append(seen, entry))
                 ELSE DedupLast(Tail(hs), mapping, threshold, category,
                                [seen EXCEPT ![at] = entry])

\* search, lines 155-171: the loop over the raw hits.  seen is the dict, in
\* insertion order; the result is [err, seen], err for the IndexError of
\* index_to_tool[idx].
RECURSIVE Dedup(_, _, _, _, _)
Dedup(hs, mapping, threshold, category, seen) ==
    IF hs = <<>> THEN [err |-> FALSE, seen |-> seen]
    ELSE LET h == Head(hs) IN
         IF h.score < threshold THEN Dedup(Tail(hs), mapping, threshold, category, seen)
         ELSE IF h.pos > Len(mapping) THEN [err |-> TRUE, seen |-> <<>>]
         ELSE LET tool == mapping[h.pos]
                  at == SeenIndex(seen, tool.name)
                  entry == [tool |-> tool, score |-> Round4(h.score)]
              IN IF ~CategoryPasses(category, tool)
                 THEN Dedup(Tail(hs), mapping, threshold, category, seen)
                 ELSE IF at = 0
                 THEN Dedup(Tail(hs), mapping, threshold, category, Append(seen, entry))
                 ELSE IF h.score > seen[at].score
                 THEN Dedup(Tail(hs), mapping, threshold, category,
                            [seen EXCEPT ![at] = entry])
                 ELSE Dedup(Tail(hs), mapping, threshold, category, seen)

\* sorted(..., key=score, reverse=True): stable, equal scores keep their order.
RECURSIVE InsertDesc(_, _)
InsertDesc(sorted, e) ==
    IF sorted = <<>> THEN <<e>>
    ELSE IF Head(sorted).score >= e.score THEN <<Head(sorted)>> \o InsertDesc(Tail(sorted), e)
    ELSE <<e>> \o sorted

RECURSIVE SortDesc(_)
SortDesc(s) ==
    IF s = <<>> THEN <<>> ELSE InsertDesc(SortDesc(SubSeq(s, 1, Len(s) - 1)), s[Len(s)])

\* results[-top_k:], the last top_k entries.
SliceTail(s, k) ==
    IF k > 0 THEN SubSeq(s, Len(s) - Min(k, Len(s)) + 1, Len(s))
    ELSE IF k = 0 THEN s
    ELSE SubSeq(s, Min(0 - k, Len(s)) + 1, Len(s))

\* results[:top_k], a negative top_k counting from the end.
Slice(s, k) ==
    IF k >= 0 THEN SubSeq(s, 1, Min(k, Len(s)))
    ELSE SubSeq(s, 1, Len(s) + k)

\* search, lines 173-175.
Ranked(seen, top_k) == Slice(SortDesc(seen), top_k)

\* ------------------------------------------------------------- requests
TopKCeiling == 20
DefaultTopK == 5
DefaultThreshold == 15000

Req(kind, tool, batch, query, top_k, threshold, category) ==
    [kind |-> kind, tool |-> tool, batch |-> batch, query |-> query,
     top_k |-> top_k, threshold |-> threshold, category |-> category]

NoReq == Req("none", BlankTool, <<>>, "", 0, 0, NoCategory)

\* A request of which only the kind matters once its input is applied.
MutationReq(kind) == Req(kind, BlankTool, <<>>, "", 0, 0, NoCategory)

\* top_k = int(top_k), the cap left out.
TopKUnclamped(r) == r.top_k

\* tmp_search, line 149: top_k = min(int(top_k), 20)
TopK(r) == Min(r.top_k, TopKCeiling)

SearchReq(query, top_k, threshold, category) ==
    Req("search", BlankTool, <<>>, query, top_k, threshold, category)

\* The search requests of the model: the defaults, a query matching
\* nothing with top_k above the ceiling, a blank query, top_k zero, and a
\* threshold above 1.
SearchInputs ==
    { SearchReq("buy", DefaultTopK, DefaultThreshold, NoCategory),
      SearchReq("zzz", TopKCeiling + 5, DefaultThreshold, NoCategory),
      SearchReq("", DefaultTopK, DefaultThreshold, NoCategory),
      SearchReq("buy", 0, DefaultThreshold, NoCategory),
      SearchReq("buy", DefaultTopK, 2 * ScoreUnit, NoCategory) }

BatchInputs ==
    UNION { [1..n -> ToolDefs \cup {BlankTool}] : n \in 1..MaxBatch }

Response(status, error, message, found) ==
    [status |-> status, error |-> error, message |-> message, tools |-> found]

NoResp == Response(0, "", FALSE, <<>>)

\* ----------------------------------------------------------------- heap
Refs(c, sf, ix) == ({c} \cup {sf[t] : t \in Threads} \cup {ix[t] : t \in Threads}) \ {NoObj}

\* Objects no reference reaches are collected: their slots are fresh again.
GC(h, refs) == [o \in ObjIds |-> IF o \in refs THEN h[o] ELSE FreshObj]

NewObj(refs) == CHOOSE o \in ObjIds \ refs : \A p \in ObjIds \ refs : o <= p

\* total_vectors, lines 181-183
TotalVectors(obj) == IF obj.hasidx THEN Len(obj.vecs) ELSE 0

\* ----------------------------------------------------------- catalogue
\* Names that differ in case only, and a name that is a LIKE wildcard.
NameFold(n) == IF n = "A" THEN "a" ELSE n

\* TMPTool.name.ilike(name), tmp_routes.py lines 281, 343, 399, 476: the
\* name of the request is the pattern, matched without regard to case; "_"
\* in a pattern stands for any one character.
Ilike(pattern, n) ==
    IF pattern = "_" THEN n \in {"a", "A", "b", "_"}
    ELSE NameFold(pattern) = NameFold(n)

\* .filter(TMPTool.name.ilike(name)).first(): the first matching row, or none
RowOf(cat, name) ==
    IF \E i \in 1..Len(cat) : Ilike(name, cat[i].name)
    THEN CHOOSE i \in 1..Len(cat) :
            /\ Ilike(name, cat[i].name)
            /\ \A j \in 1..Len(cat) : Ilike(name, cat[j].name) => i <= j
    ELSE 0

\* The unique index on asp_tools.name (models/tmp_tool.py line 19) of the
\* MySQL database (config.py line 13), whose default collations compare
\* without regard to case: the rows would hold two names it takes as equal.
UniqueViolated(cat) ==
    \E i, j \in 1..Len(cat) : i # j /\ NameFold(cat[i].name) = NameFold(cat[j].name)

RemoveAt(s, i) == SubSeq(s, 1, i - 1) \o SubSeq(s, i + 1, Len(s))

\* tmp_register_batch, lines 473-504: an entry updates the row its name
\* finds (every column but the name) or adds a row; entries without a name
\* are skipped (lines 446-449).  The rows added by earlier entries are found
\* by the lookup (the session flushes before a query).
RECURSIVE ApplyBatch(_, _)
ApplyBatch(cat, entries) ==
    IF entries = <<>> THEN cat
    ELSE LET td == Head(entries)
             at == RowOf(cat, td.name)
         IN IF td.name = "" THEN ApplyBatch(cat, Tail(entries))
            ELSE IF at # 0
            THEN ApplyBatch([cat EXCEPT ![at] = [td EXCEPT !.name = cat[at].name]],
                            Tail(entries))
            ELSE ApplyBatch(Append(cat, td), Tail(entries))

\* The same with a session that does not flush before a query: the lookup
\* sees the n rows the table held, not the rows added by earlier entries.
RECURSIVE ApplyBatchUnflushed(_, _, _)
ApplyBatchUnflushed(cat, entries, n) ==
    IF entries = <<>> THEN cat
    ELSE LET td == Head(entries)
             at == RowOf(SubSeq(cat, 1, n), td.name)
         IN IF td.name = "" THEN ApplyBatchUnflushed(cat, Tail(entries), n)
            ELSE IF at # 0
            THEN ApplyBatchUnflushed([cat EXCEPT ![at] = [td EXCEPT !.name = cat[at].name]],
                                     Tail(entries), n)
            ELSE ApplyBatchUnflushed(Append(cat, td), Tail(entries), n)

\* build, lines 84-128, run alone on a fresh object.
BuildResult(ts) ==
    IF ts = <<>> THEN FreshObj
    ELSE [built |-> TRUE, hasidx |-> TRUE, vecs |-> EmbedBatch(AllTexts(ts)),
          index_to_tool |-> AllMappings(ts), dimension |-> Dim, tool_count |-> Len(ts)]

\* ------------------------------------------- the smart updater's objects
\* SmartUpdater.__init__, smart_updater.py lines 142-149, and the threads
\* that start() creates to run _run_loop.
MaxLoops == 2
LoopIds == 1..MaxLoops
NoThread == 0
Never == -1

\* A loop thread: its position in _run_loop, the time its blocking call
\* returns, the local now of _do_chase_cycle, the (event_time, offset) pairs
\* the two for loops of _do_chase_cycle have still to visit, and where
\* _do_periodic returns to.
LoopAt(p, w, n, td, nx) == [pc |-> p, wake |-> w, now |-> n, todo |-> td, next |-> nx]
NoLoop == LoopAt("none", 0, 0, <<>>, "")
NoCall == [op |-> "", deadline |-> 0]

NewUpdater ==
    /\ clock = 0
    /\ enabled = TRUE
    /\ stop_event = FALSE
    /\ thread = NoThread
    /\ last_periodic = Never
    /\ loop = [l \in LoopIds |-> NoLoop]
    /\ caller = NoCall
    /\ chased = {}
    /\ since = Never
    /\ calls = 0

\* ----------------------------------------------------------------- Init
\* The server starts with the global a fresh FAISSToolIndex (line 188) and
\* the catalogue as the database holds it; the model also starts from the
\* state a first search leaves, its lazy build done.
Init ==
    /\ catalogue \in {<<>>, <<Tool("a", "d1", "trading", <<"buy">>)>>}
    /\ cur = 1
    /\ heap \in {[o \in ObjIds |-> FreshObj],
                 [o \in ObjIds |-> IF o = 1 THEN BuildResult(catalogue) ELSE FreshObj]}
    /\ pc = [t \in Threads |-> "idle"]
    /\ req = [t \in Threads |-> NoReq]
    /\ tools = [t \in Threads |-> <<>>]
    /\ self = [t \in Threads |-> NoObj]
    /\ idx = [t \in Threads |-> NoObj]
    /\ hits = [t \in Threads |-> <<>>]
    /\ exc = [t \in Threads |-> ""]
    /\ resp = [t \in Threads |-> NoResp]
    /\ nreq = 0
    /\ everBuilt = heap[cur].built
    /\ began = [t \in Threads |-> FALSE]
    /\ hadBuilt = [t \in Threads |-> FALSE]
    /\ alone = [t \in Threads |-> FALSE]
    /\ NewUpdater
    /\ events = {}

InFlight(t) == pc[t] \notin {"idle", "done"}

\* A request is served by an idle thread; which one is immaterial, and the
\* model takes the first.
FirstIdle == CHOOSE t \in Threads : pc[t] = "idle" /\ (t = "t1" \/ pc["t1"] # "idle")

\* Request r arrives on thread t, whose handler continues at `at`: from now
\* on no other request is alone, and a search is when it finds no other
\* request in flight.
Arrive(t, r, at) ==
    /\ pc[t] = "idle"
    /\ t = FirstIdle
    /\ nreq < MaxReqs
    /\ nreq' = nreq + 1
    /\ req' = [req EXCEPT ![t] = r]
    /\ pc' = [pc EXCEPT ![t] = at]
    /\ alone' = [u \in Threads |-> /\ u = t /\ r.kind = "search"
                                   /\ \A v \in Threads \ {t} : ~InFlight(v)]

\* The request is answered at once with response r.
Answer(t, r, rsp) ==
    /\ Arrive(t, r, "done")
    /\ resp' = [resp EXCEPT ![t] = rsp]

\* The handler returns response r.
Respond(t, r) ==
    /\ pc' = [pc EXCEPT ![t] = "done"]
    /\ resp' = [resp EXCEPT ![t] = r]
    /\ self' = [self EXCEPT ![t] = NoObj]
    /\ idx' = [idx EXCEPT ![t] = NoObj]
    /\ hits' = [hits EXCEPT ![t] = <<>>]
    /\ exc' = [exc EXCEPT ![t] = ""]
    /\ heap' = GC(heap, Refs(cur, self', idx'))

\* An exception leaves the current call and propagates to the handler.
Raise(t, error) ==
    /\ pc' = [pc EXCEPT ![t] = "except"]
    /\ exc' = [exc EXCEPT ![t] = error]
    /\ self' = [self EXCEPT ![t] = NoObj]
    /\ idx' = [idx EXCEPT ![t] = NoObj]
    /\ hits' = [hits EXCEPT ![t] = <<>>]
    /\ heap' = GC(heap, Refs(cur, self', idx'))

\* An except clause that swallows the error and answers an empty result.
HandleExceptionSwallow(t) ==
    /\ pc[t] = "except"
    /\ Respond(t, Response(200, "", FALSE, <<>>))
    /\ UNCHANGED <<catalogue, cur, req, tools, nreq, history>>
    /\ UNCHANGED updater

\* The except clause of the handlers (tmp_routes.py 210-212, 327-329,
\* 387-389, 410-412, 517-519, 569-571): db.rollback(), which undoes nothing
\* once the change is committed, and {"error": str(e)} with status 500.
HandleException(t) ==
    /\ pc[t] = "except"
    /\ Respond(t, Response(500, exc[t], FALSE, <<>>))
    /\ UNCHANGED <<catalogue, cur, req, tools, nreq, history>>
    /\ UNCHANGED updater

\* db.commit() of a catalogue change, then the call of rebuild_faiss_index.
Commit(t, cat) ==
    /\ catalogue' = cat
    /\ alone' = [u \in Threads |-> u = t /\ \A v \in Threads \ {t} : ~InFlight(v)]
    /\ UNCHANGED <<everBuilt, began, hadBuilt>>

\* ------------------------------------------------- rebuild_faiss_index
\* lines 204-216: tools = db.query(TMPTool).all()
RebuildRead(t) ==
    /\ pc[t] = "r_read"
    /\ tools' = [tools EXCEPT ![t] = catalogue]
    /\ hadBuilt' = [hadBuilt EXCEPT ![t] = heap[cur].built]
    /\ pc' = [pc EXCEPT ![t] = "r_new"]
    /\ UNCHANGED <<shared, req, self, idx, hits, exc, resp, nreq, everBuilt, began, alone>>
    /\ UNCHANGED updater

\* rebuild_faiss_index without its `global` statement: the new object is
\* bound to a local name and the current index stays what it was.
RebuildNewLocal(t) ==
    /\ pc[t] = "r_new"
    /\ pc' = [pc EXCEPT ![t] = IF tools[t] # <<>> THEN "r_build" ELSE "r_ret"]
    /\ UNCHANGED <<shared, req, locals, resp, nreq, history>>
    /\ UNCHANGED updater

\* line 218: _faiss_index = FAISSToolIndex(); line 219: if tool_dicts
RebuildNew(t) ==
    /\ pc[t] = "r_new"
    /\ cur' = NewObj(Refs(cur, self, idx))
    /\ heap' = GC([heap EXCEPT ![cur'] = FreshObj], Refs(cur', self, idx))
    /\ pc' = [pc EXCEPT ![t] = IF tools[t] # <<>> THEN "r_build" ELSE "r_ret"]
    /\ UNCHANGED <<catalogue, req, locals, resp, nreq, history>>
    /\ UNCHANGED updater

\* build with the vectors of different lengths caught and the build going
\* on with the vectors that fit.
BuildEmbedPartial(t) ==
    /\ pc[t] = "r_build"
    /\ \/ /\ self' = [self EXCEPT ![t] = cur]
          /\ pc' = [pc EXCEPT ![t] = "b_index"]
          /\ UNCHANGED <<heap, idx, hits, exc>>
       \/ Raise(t, "provider")
       \/ /\ self' = [self EXCEPT ![t] = cur]
          /\ pc' = [pc EXCEPT ![t] = "b_index"]
          /\ exc' = [exc EXCEPT ![t] = "dimension"]
          /\ UNCHANGED <<heap, idx, hits>>
    /\ hadBuilt' = [hadBuilt EXCEPT ![t] = FALSE]
    /\ UNCHANGED <<catalogue, cur, req, tools, resp, nreq, everBuilt, began, alone>>
    /\ UNCHANGED updater

\* line 220: _faiss_index.build(tool_dicts) reads the global and runs build
\* on that object; build lines 84-118: the texts and the provider's batch
\* call, which returns the vectors, raises, or returns vectors of
\* different lengths, on which np.array(..., dtype=float32) raises.
BuildEmbed(t) ==
    /\ pc[t] = "r_build"
    /\ \/ /\ self' = [self EXCEPT ![t] = cur]
          /\ pc' = [pc EXCEPT ![t] = "b_index"]
          /\ UNCHANGED <<heap, idx, hits, exc>>
       \/ Raise(t, "provider")
       \/ Raise(t, "dimension")
    /\ hadBuilt' = [hadBuilt EXCEPT ![t] = FALSE]
    /\ UNCHANGED <<catalogue, cur, req, tools, resp, nreq, everBuilt, began, alone>>
    /\ UNCHANGED updater

\* lines 123-124: self.dimension = ...; self.index = faiss.IndexFlatIP(...)
BuildIndex(t) ==
    /\ pc[t] = "b_index"
    /\ heap' = [heap EXCEPT ![self[t]] =
                  [@ EXCEPT !.dimension = Dim, !.hasidx = TRUE, !.vecs = <<>>]]
    /\ pc' = [pc EXCEPT ![t] = "b_add"]
    /\ UNCHANGED <<catalogue, cur, req, locals, resp, nreq, history>>
    /\ UNCHANGED updater

\* line 125: self.index.add(vectors), on the object self.index is now
BuildAdd(t) ==
    /\ pc[t] = "b_add"
    /\ heap' = [heap EXCEPT ![self[t]] =
                  [@ EXCEPT !.vecs = @ \o EmbedBatch(AllTexts(tools[t]))]]
    /\ pc' = [pc EXCEPT ![t] = "b_map"]
    /\ UNCHANGED <<catalogue, cur, req, locals, resp, nreq, history>>
    /\ UNCHANGED updater

\* line 126: self.index_to_tool = all_mappings
BuildMap(t) ==
    /\ pc[t] = "b_map"
    /\ heap' = [heap EXCEPT ![self[t]] =
                  [@ EXCEPT !.index_to_tool = AllMappings(tools[t])]]
    /\ pc' = [pc EXCEPT ![t] = "b_built"]
    /\ UNCHANGED <<catalogue, cur, req, locals, resp, nreq, history>>
    /\ UNCHANGED updater

\* lines 127-128: self.tool_count = len(tools); self._built = True; build
\* returns (nothing reads tool_count between the two assignments)
BuildBuilt(t) ==
    /\ pc[t] = "b_built"
    /\ self' = [self EXCEPT ![t] = NoObj]
    /\ heap' = GC([heap EXCEPT ![self[t]] =
                     [@ EXCEPT !.tool_count = Len(tools[t]), !.built = TRUE]],
                  Refs(cur, self', idx))
    /\ everBuilt' = (everBuilt \/ heap'[cur].built)
    /\ pc' = [pc EXCEPT ![t] = "r_ret"]
    /\ UNCHANGED <<catalogue, cur, req, tools, idx, hits, exc, resp, nreq,
                   began, hadBuilt, alone>>
    /\ UNCHANGED updater

\* line 221: return _faiss_index, the global as it is now.  tmp_search
\* (line 157) keeps it as idx; tmp_reindex (lines 560-567) reports it; the
\* other handlers drop it and answer 201 (register, batch) or 200.
RebuildReturn(t) ==
    /\ pc[t] = "r_ret"
    /\ IF req[t].kind = "search"
       THEN /\ idx' = [idx EXCEPT ![t] = cur]
            /\ pc' = [pc EXCEPT ![t] = "s_lazy"]
            /\ UNCHANGED <<heap, self, hits, exc, resp>>
       ELSE Respond(t, Response(IF req[t].kind \in {"register", "batch"} THEN 201 ELSE 200,
                                "", FALSE, <<>>))
    /\ UNCHANGED <<catalogue, cur, req, tools, nreq, history>>
    /\ UNCHANGED updater

\* ----------------------------------------------------------- tmp_search
\* lines 140-155: parse; a blank query is answered 400; top_k is
\* min(int(top_k), 20); idx = get_faiss_index()
SearchStart(t) ==
    \E r \in SearchInputs :
        /\ IF r.query = ""
           THEN /\ Answer(t, r, Response(400, "missing_query", FALSE, <<>>))
                /\ UNCHANGED <<idx, began>>
           ELSE /\ Arrive(t, r, "s_check")
                /\ idx' = [idx EXCEPT ![t] = cur]
                /\ began' = [began EXCEPT ![t] = everBuilt]
                /\ UNCHANGED resp
        /\ UNCHANGED <<shared, tools, self, hits, exc, everBuilt, hadBuilt>>
        /\ UNCHANGED updater

\* lines 156-157: if not idx.is_built: idx = rebuild_faiss_index().  A built
\* idx stays built, so the test of line 159 passes as well.
SearchCheck(t) ==
    /\ pc[t] = "s_check"
    /\ IF heap[idx[t]].built
       THEN /\ pc' = [pc EXCEPT ![t] = "s_embed"]
            /\ UNCHANGED <<idx, heap>>
       ELSE /\ pc' = [pc EXCEPT ![t] = "r_read"]
            /\ idx' = [idx EXCEPT ![t] = NoObj]
            /\ heap' = GC(heap, Refs(cur, self, idx'))
    /\ UNCHANGED <<catalogue, cur, req, tools, self, hits, exc, resp, nreq, history>>
    /\ UNCHANGED updater

\* lines 159-166, after the lazy build: if not idx.is_built, the answer
\* 'No tools registered yet' with an empty tool list.
SearchLazy(t) ==
    /\ pc[t] = "s_lazy"
    /\ IF ~heap[idx[t]].built
       THEN Respond(t, Response(200, "", TRUE, <<>>))
       ELSE /\ pc' = [pc EXCEPT ![t] = "s_embed"]
            /\ UNCHANGED <<heap, self, idx, hits, exc, resp>>
    /\ UNCHANGED <<catalogue, cur, req, tools, nreq, history>>
    /\ UNCHANGED updater

\* idx.search, lines 140-148: the guard of line 140 and the provider's
\* embedding of the query, which returns the vector or raises.
SearchEmbed(t) ==
    /\ pc[t] = "s_embed"
    /\ IF ~heap[idx[t]].built \/ ~heap[idx[t]].hasidx
       THEN Respond(t, Response(200, "", FALSE, <<>>))
       ELSE \/ /\ pc' = [pc EXCEPT ![t] = "s_faiss"]
               /\ UNCHANGED <<heap, self, idx, hits, exc, resp>>
            \/ /\ Raise(t, "provider")
               /\ UNCHANGED resp
    /\ UNCHANGED <<catalogue, cur, req, tools, nreq, history>>
    /\ UNCHANGED updater

\* lines 151-152: search_k = min(self.index.ntotal, top_k * 10) and
\* self.index.search(q_vec, search_k).  With search_k below 1 faiss either
\* refuses k (an exception) or returns no hit, depending on its version.
SearchFaiss(t) ==
    /\ pc[t] = "s_faiss"
    /\ LET search_k == Min(Len(heap[idx[t]].vecs), TopK(req[t]) * 10) IN
       \/ /\ search_k >= 0
          /\ hits' = [hits EXCEPT ![t] = FaissSearch(heap[idx[t]].vecs, req[t].query, search_k)]
          /\ pc' = [pc EXCEPT ![t] = "s_dedup"]
          /\ UNCHANGED <<heap, self, idx, exc>>
       \/ /\ search_k < 1
          /\ Raise(t, "faiss_k")
    /\ UNCHANGED <<catalogue, cur, req, tools, resp, nreq, history>>
    /\ UNCHANGED updater

\* lines 155-175 and tmp_routes.py 171-208: the loop over the hits reads
\* self.index_to_tool; the ranked tools are answered with status 200.
SearchDedup(t) ==
    /\ pc[t] = "s_dedup"
    /\ LET d == Dedup(hits[t], heap[idx[t]].index_to_tool, req[t].threshold,
                      req[t].category, <<>>) IN
       IF d.err THEN Raise(t, "index_error") /\ UNCHANGED resp
       ELSE Respond(t, Response(200, "", FALSE, Ranked(d.seen, TopK(req[t]))))
    /\ UNCHANGED <<catalogue, cur, req, tools, nreq, history>>
    /\ UNCHANGED updater

\* ------------------------------------------------------ tool management
\* tmp_register_tool, lines 267-283: validation and the lookup of the name
RegisterStart(t) ==
    \E td \in ToolDefs \cup {BlankTool} :
        LET r == Req("register", td, <<>>, "", 0, 0, NoCategory) IN
        /\ IF td.name = ""
           THEN Answer(t, r, Response(400, "invalid", FALSE, <<>>))
           ELSE IF RowOf(catalogue, td.name) # 0
           THEN Answer(t, r, Response(409, "exists", FALSE, <<>>))
           ELSE Arrive(t, r, "reg_commit") /\ UNCHANGED resp
        /\ UNCHANGED <<shared, locals, everBuilt, began, hadBuilt>>
        /\ UNCHANGED updater

\* lines 285-316: the row is added and committed; the unique name column
\* (models/tmp_tool.py:19) makes the commit raise when the name is taken.
RegisterCommit(t) ==
    /\ pc[t] = "reg_commit"
    /\ IF RowOf(catalogue, req[t].tool.name) # 0
       THEN /\ Raise(t, "integrity")
            /\ UNCHANGED <<catalogue, req, history>>
       ELSE /\ Commit(t, Append(catalogue, req[t].tool))
            /\ pc' = [pc EXCEPT ![t] = "r_read"]
            /\ req' = [req EXCEPT ![t] = MutationReq("register")]
            /\ UNCHANGED <<heap, self, idx, hits, exc>>
    /\ UNCHANGED <<cur, tools, resp, nreq>>
    /\ UNCHANGED updater

\* A handler whose first statements find the row and commit the change.
Mutate(t, kind, found, cat) ==
    IF ~found
    THEN /\ Answer(t, MutationReq(kind), Response(404, "not_found", FALSE, <<>>))
         /\ UNCHANGED <<catalogue, everBuilt, began, hadBuilt>>
    ELSE /\ pc[t] = "idle"
         /\ t = FirstIdle
         /\ nreq < MaxReqs
         /\ nreq' = nreq + 1
         /\ req' = [req EXCEPT ![t] = MutationReq(kind)]
         /\ pc' = [pc EXCEPT ![t] = "r_read"]
         /\ Commit(t, cat)
         /\ UNCHANGED resp

\* tmp_update_tool, lines 337-377
UpdateStart(t) ==
    \E td \in ToolDefs :
        LET at == RowOf(catalogue, td.name) IN
        /\ Mutate(t, "update", at # 0, [catalogue EXCEPT ![at] = td])
        /\ UNCHANGED <<cur, heap, locals>>
        /\ UNCHANGED updater

\* tmp_delete_tool, lines 397-404
DeleteStart(t) ==
    \E n \in Names :
        LET at == RowOf(catalogue, n) IN
        /\ Mutate(t, "delete", at # 0, RemoveAt(catalogue, at))
        /\ UNCHANGED <<cur, heap, locals>>
        /\ UNCHANGED updater

\* tmp_register_batch, lines 432-506 (an empty tools array is answered 400)
BatchStart(t) ==
    \E entries \in BatchInputs :
        /\ Mutate(t, "batch", TRUE, ApplyBatch(catalogue, entries))
        /\ UNCHANGED <<cur, heap, locals>>
        /\ UNCHANGED updater

\* tmp_reindex, lines 530-560: no tools, or the provider's batch call (which
\* may raise) and the commit of the stored embeddings
ReindexStart(t) ==
    /\ IF catalogue = <<>>
       THEN Answer(t, MutationReq("reindex"), Response(200, "", FALSE, <<>>))
            /\ UNCHANGED exc
       ELSE \/ Arrive(t, MutationReq("reindex"), "r_read") /\ UNCHANGED <<resp, exc>>
            \/ /\ Arrive(t, MutationReq("reindex"), "except")
               /\ exc' = [exc EXCEPT ![t] = "provider"]
               /\ UNCHANGED resp
    /\ UNCHANGED <<shared, tools, self, idx, hits, everBuilt, began, hadBuilt>>
    /\ UNCHANGED updater

\* tmp_status, tmp_routes.py lines 580-587: GET /tmp/status arrives and the
\* counts of the tools table are read.
StatusStart(t) ==
    /\ Arrive(t, MutationReq("status"), "st_idx")
    /\ UNCHANGED <<shared, locals, resp, everBuilt, began, hadBuilt>>
    /\ UNCHANGED updater

\* get_provider_info, tmp_embeddings.py line 318: idx = get_faiss_index()
StatusIndex(t) ==
    /\ pc[t] = "st_idx"
    /\ idx' = [idx EXCEPT ![t] = cur]
    /\ pc' = [pc EXCEPT ![t] = "st_built"]
    /\ UNCHANGED <<shared, req, tools, self, hits, exc, resp, nreq, history>>
    /\ UNCHANGED updater

\* line 324: "index_built": idx.is_built
StatusBuilt(t) ==
    /\ pc[t] = "st_built"
    /\ hits' = [hits EXCEPT ![t] = <<heap[idx[t]].built>>]
    /\ pc' = [pc EXCEPT ![t] = "st_vectors"]
    /\ UNCHANGED <<shared, req, tools, self, idx, exc, resp, nreq, history>>
    /\ UNCHANGED updater

\* line 325: "total_vectors": idx.total_vectors
StatusVectors(t) ==
    /\ pc[t] = "st_vectors"
    /\ hits' = [hits EXCEPT ![t] = Append(@, TotalVectors(heap[idx[t]]))]
    /\ pc' = [pc EXCEPT ![t] = "st_count"]
    /\ UNCHANGED <<shared, req, tools, self, idx, exc, resp, nreq, history>>
    /\ UNCHANGED updater

\* line 326: "tools_indexed": idx.tool_count, and the report is returned
\* (tmp_routes.py lines 589-612).
StatusCount(t) ==
    /\ pc[t] = "st_count"
    /\ Respond(t, Response(200, "", FALSE,
                           <<[index_built |-> hits[t][1], total_vectors |-> hits[t][2],
                              tools_indexed |-> heap[idx[t]].tool_count]>>))
    /\ UNCHANGED <<catalogue, cur, req, tools, nreq, history>>
    /\ UNCHANGED updater

\* The response is sent; the thread serves the next request.
Finish(t) ==
    /\ pc[t] = "done"
    /\ pc' = [pc EXCEPT ![t] = "idle"]
    /\ req' = [req EXCEPT ![t] = NoReq]
    /\ resp' = [resp EXCEPT ![t] = NoResp]
    /\ tools' = [tools EXCEPT ![t] = <<>>]
    /\ alone' = [alone EXCEPT ![t] = FALSE]
    /\ began' = [began EXCEPT ![t] = FALSE]
    /\ UNCHANGED <<shared, self, idx, hits, exc, nreq, everBuilt, hadBuilt>>
    /\ UNCHANGED updater

Next ==
    \E t \in Threads :
        \/ SearchStart(t) \/ SearchCheck(t) \/ SearchLazy(t) \/ SearchEmbed(t)
        \/ SearchFaiss(t) \/ SearchDedup(t)
        \/ RegisterStart(t) \/ RegisterCommit(t) \/ UpdateStart(t) \/ DeleteStart(t)
        \/ BatchStart(t) \/ ReindexStart(t)
        \/ RebuildRead(t) \/ RebuildNew(t) \/ BuildEmbed(t) \/ BuildIndex(t)
        \/ BuildAdd(t) \/ BuildMap(t) \/ BuildBuilt(t) \/ RebuildReturn(t)
        \/ StatusStart(t) \/ StatusIndex(t) \/ StatusBuilt(t) \/ StatusVectors(t)
        \/ StatusCount(t)
        \/ HandleException(t) \/ Finish(t)

Spec == Init /\ [][Next]_vars

\* ------------------------------------------------------------ properties
\* FAISSToolIndex.search, lines 140-175, run without interruption on obj.
SearchOn(obj, r) ==
    IF ~obj.built \/ ~obj.hasidx THEN <<>>
    ELSE LET search_k == Min(Len(obj.vecs), TopK(r) * 10)
             d == Dedup(FaissSearch(obj.vecs, r.query, search_k), obj.index_to_tool,
                        r.threshold, r.category, <<>>)
         IN Ranked(d.seen, TopK(r))

\* obj is what a build of a non-empty catalogue snapshot leaves.
Complete(obj) == \E snap \in AllCatalogues \ {<<>>} : obj = BuildResult(snap)

MutationKinds == {"register", "update", "delete", "batch"}

InRebuild(t) == pc[t] \in {"r_read", "r_new", "r_build", "b_index", "b_add", "b_map",
                           "b_built", "r_ret"}

\* rebuild_faiss_index of thread t publishes the object of an empty catalogue.
PublishesEmpty(t) == pc[t] = "r_new" /\ tools[t] = <<>> /\ pc'[t] = "r_ret"

\* C1: once the current index is built, the current index is a completely
\* built index after every step (a step that publishes the index of an
\* empty catalogue set aside): the global is never assigned an index that
\* is still to be built.
C1_CurrentStaysBuilt ==
    [][heap[cur].built =>
          (Complete(heap'[cur']) \/ \E t \in Threads : PublishesEmpty(t))]_vars

\* C2: when the rebuild of a request running alone fails in the provider
\* call (an exception, or vectors of different lengths) and the current
\* index was built when the rebuild began, the current index is built after
\* the failure.
C2_FailedRebuildKeepsIndex ==
    [][\A t \in Threads :
          (/\ pc[t] = "r_build" /\ pc'[t] = "except"
           /\ hadBuilt[t]
           /\ \A u \in Threads \ {t} : ~InFlight(u))
          => heap'[cur'].built]_vars

\* C3: a search that began after an index had been built and been current
\* never runs rebuild_faiss_index.
C3_SearchNeverRebuilds ==
    \A t \in Threads : (req[t].kind = "search" /\ began[t]) => ~InRebuild(t)

ValidSearch(r) ==
    /\ r.kind = "search" /\ r.query # ""
    /\ r.top_k >= 1
    /\ r.threshold >= 0 /\ r.threshold <= ScoreUnit

\* C4: a finished search with valid input either failed in the provider or
\* answers what the search of one completely built index (or of the empty
\* catalogue's index) returns for its input.
C4_SearchSeesOneSnapshot ==
    \A t \in Threads :
        (pc[t] = "done" /\ ValidSearch(req[t])) =>
            \/ resp[t].status = 500 /\ resp[t].error \in {"provider", "dimension"}
            \/ /\ resp[t].status = 200
               /\ \E snap \in AllCatalogues :
                     resp[t].tools = SearchOn(BuildResult(snap), req[t])

RECURSIVE ToolNames(_)
ToolNames(mapping) ==
    IF mapping = <<>> THEN {} ELSE {Head(mapping).name} \cup ToolNames(Tail(mapping))

\* C5: when a register, update, delete or batch request has answered with
\* success and no other request was in flight from its commit on, the
\* tools of the current index are the tools of the catalogue (none, with no
\* vector, for an empty catalogue).
C5_MutationRebuildsIndex ==
    \A t \in Threads :
        (/\ pc[t] = "done" /\ req[t].kind \in MutationKinds
         /\ resp[t].status \in {200, 201} /\ alone[t])
        => /\ ToolNames(heap[cur].index_to_tool) = SeqNames(catalogue)
           /\ heap[cur].tool_count = Len(catalogue)
           /\ catalogue = <<>> => TotalVectors(heap[cur]) = 0

C5_Witness ==
    \E t \in Threads :
        /\ pc[t] = "done" /\ req[t].kind = "delete" /\ resp[t].status = 200 /\ alone[t]
        /\ Len(catalogue) = 1 /\ heap[cur].built

Succeeded(t) ==
    /\ pc[t] = "done" /\ req[t].kind \in MutationKinds \cup {"reindex"}
    /\ resp[t].status \in {200, 201}

\* C6: when the rebuilds of two requests have both finished without error,
\* the current index is the complete build of the snapshot one of them read.
C6_ConcurrentRebuildsComplete ==
    (\A t \in Threads : Succeeded(t) /\ tools[t] # <<>>)
        => \E t \in Threads : heap[cur] = BuildResult(tools[t])

\* C7: a search that began before any index was built and whose lazy build
\* read a non-empty catalogue does not answer 'no tools registered' and
\* fails, if at all, in the provider.
C7_LazyBuildAnswers ==
    \A t \in Threads :
        (/\ pc[t] = "done" /\ ValidSearch(req[t]) /\ ~began[t] /\ tools[t] # <<>>)
        => /\ ~resp[t].message
           /\ resp[t].status = 500 => resp[t].error \in {"provider", "dimension"}

\* C8: the step of a search after its lazy build (a) answers 'no tools
\* registered', status 200 and no tool, when the build read an empty
\* catalogue; and a search answers with that message only (b) when its idx
\* is not built after its lazy build.
C8_EmptyStateMessage ==
    [][\A t \in Threads :
          /\ (pc[t] = "s_lazy" /\ tools[t] = <<>> /\ pc'[t] # "s_lazy")
                => (pc'[t] = "done" /\ resp'[t] = Response(200, "", TRUE, <<>>))
          /\ (pc'[t] = "done" /\ pc[t] # "done" /\ resp'[t].message)
                => (pc[t] = "s_lazy" /\ ~heap[idx[t]].built)]_vars

OutOfRange(r) ==
    /\ r.kind = "search"
    /\ \/ r.query = ""
       \/ r.top_k < 1 \/ r.top_k > TopKCeiling
       \/ r.threshold < 0 \/ r.threshold > ScoreUnit

\* C9: a search with a blank query, a top_k below 1 or above the ceiling, or
\* a threshold outside [0, 1] is answered 400 at once; its handler never
\* runs beyond the parsing of the input.
C9_BadInputRejected ==
    \A t \in Threads :
        OutOfRange(req[t]) => (pc[t] = "done" /\ resp[t].status = 400)

\* C10: when a provider call of a search (the lazy build's batch call or
\* the embedding of the query) fails, the search answers with status 500
\* and the provider's error, and no tool list.
C10_ProviderFailureReported ==
    [][\A t \in Threads :
          (/\ req[t].kind = "search" /\ pc[t] = "except"
           /\ exc[t] \in {"provider", "dimension"} /\ pc'[t] # "except")
          => (/\ pc'[t] = "done" /\ resp'[t].status = 500
              /\ resp'[t].error = exc[t] /\ resp'[t].tools = <<>>
              /\ ~resp'[t].message)]_vars

C10_Witness ==
    \E t \in Threads :
        /\ pc[t] = "done" /\ req[t].kind = "search" /\ resp[t].status = 500
        /\ resp[t].error = "provider" /\ tools[t] # <<>>

\* ------------------------------------------ search on a settled index
\* The requests of this part run one at a time: a registration with its
\* rebuild, then searches against the index that rebuild left.
MaxTools == 2         \* tools of the catalogue
ManyExamples == 20    \* examples of the tool with many examples

\* Tool definitions with a category in another case, an example list longer
\* than the over-fetch of a small top_k, and a blank example.
RichToolDefs ==
    ToolDefs \cup
    { Tool("c", "d1", "Trading", <<"sell">>),
      Tool("big", "d1", "Info", Repeat("buy", ManyExamples)),
      Tool("b", "d2", "Info", <<"">>) }

RichInputs ==
    { SearchReq(q, k, th, c) :
        q \in Queries, k \in {0 - 1, 0, 1, 2, TopKCeiling + 5},
        th \in {0, DefaultThreshold, 30005, ScoreUnit},
        c \in {NoCategory, "TRADING", "info"} }

InitAlone ==
    /\ catalogue = <<>>
    /\ cur = 1
    /\ heap = [o \in ObjIds |-> FreshObj]
    /\ pc = [t \in Threads |-> "idle"]
    /\ req = [t \in Threads |-> NoReq]
    /\ tools = [t \in Threads |-> <<>>]
    /\ self = [t \in Threads |-> NoObj]
    /\ idx = [t \in Threads |-> NoObj]
    /\ hits = [t \in Threads |-> <<>>]
    /\ exc = [t \in Threads |-> ""]
    /\ resp = [t \in Threads |-> NoResp]
    /\ nreq = 0
    /\ everBuilt = FALSE
    /\ began = [t \in Threads |-> FALSE]
    /\ hadBuilt = [t \in Threads |-> FALSE]
    /\ alone = [t \in Threads |-> FALSE]
    /\ NewUpdater
    /\ events = {}

\* tmp_register_tool (lines 267-325) with its rebuild_faiss_index and build,
\* no other request running and the provider answering.
RegisterAlone(t) ==
    \E td \in RichToolDefs :
        /\ t = FirstIdle /\ \A u \in Threads : pc[u] = "idle"
        /\ Len(catalogue) < MaxTools
        /\ RowOf(catalogue, td.name) = 0
        /\ catalogue' = Append(catalogue, td)
        /\ heap' = [heap EXCEPT ![cur] = BuildResult(catalogue')]
        /\ everBuilt' = TRUE
        /\ tools' = [tools EXCEPT ![t] = catalogue']
        /\ req' = [req EXCEPT ![t] = Req("register", td, <<>>, "", 0, 0, NoCategory)]
        /\ resp' = [resp EXCEPT ![t] = Response(201, "", FALSE, <<>>)]
        /\ pc' = [pc EXCEPT ![t] = "done"]
        /\ UNCHANGED <<cur, self, idx, hits, exc, nreq, began, hadBuilt, alone>>
        /\ UNCHANGED updater

\* tmp_search (lines 145-208) on a built current index, no other request
\* running: idx.search answers the ranked tools, or the provider or faiss
\* (search_k below 1) raises and the handler answers 500.
SearchAlone(t) ==
    \E r \in RichInputs :
        /\ t = FirstIdle /\ \A u \in Threads : pc[u] = "idle"
        /\ heap[cur].built
        /\ LET search_k == Min(Len(heap[cur].vecs), TopK(r) * 10) IN
           \/ /\ search_k >= 0
              /\ resp' = [resp EXCEPT ![t] = Response(200, "", FALSE, SearchOn(heap[cur], r))]
           \/ /\ search_k < 1
              /\ resp' = [resp EXCEPT ![t] = Response(500, "faiss_k", FALSE, <<>>)]
           \/ resp' = [resp EXCEPT ![t] = Response(500, "provider", FALSE, <<>>)]
        /\ req' = [req EXCEPT ![t] = r]
        /\ began' = [began EXCEPT ![t] = TRUE]
        /\ pc' = [pc EXCEPT ![t] = "done"]
        /\ UNCHANGED <<shared, tools, self, idx, hits, exc, nreq, everBuilt, hadBuilt, alone>>
        /\ UNCHANGED updater

\* One tool more than the ceiling of top_k, each with a description only.
ManyTools ==
    [i \in 1..(TopKCeiling + 1) |-> Tool(ToString(i), "d1", NoCategory, <<>>)]

\* tmp_register_batch (lines 432-515) importing ManyTools into an empty
\* catalogue, with its rebuild, no other request running.
BatchAlone(t) ==
    /\ t = FirstIdle /\ \A u \in Threads : pc[u] = "idle"
    /\ catalogue = <<>>
    /\ catalogue' = ManyTools
    /\ heap' = [heap EXCEPT ![cur] = BuildResult(catalogue')]
    /\ everBuilt' = TRUE
    /\ tools' = [tools EXCEPT ![t] = catalogue']
    /\ req' = [req EXCEPT ![t] = MutationReq("batch")]
    /\ resp' = [resp EXCEPT ![t] = Response(201, "", FALSE, <<>>)]
    /\ pc' = [pc EXCEPT ![t] = "done"]
    /\ UNCHANGED <<cur, self, idx, hits, exc, nreq, began, hadBuilt, alone>>
    /\ UNCHANGED updater

NextAlone ==
    \E t \in Threads :
        RegisterAlone(t) \/ BatchAlone(t) \/ SearchAlone(t) \/ Finish(t)

SpecAlone == InitAlone /\ [][NextAlone]_vars

\* The raw hits of request r on index obj (search, lines 151-152) and those
\* of them that pass the threshold and the category filter.
RawHits(obj, r) ==
    FaissSearch(obj.vecs, r.query, Min(Len(obj.vecs), TopK(r) * 10))

PassingScores(obj, r, name) ==
    LET hs == RawHits(obj, r) IN
    { hs[i].score : i \in { j \in 1..Len(hs) :
          /\ hs[j].score >= r.threshold
          /\ obj.index_to_tool[hs[j].pos].name = name
          /\ CategoryPasses(r.category, obj.index_to_tool[hs[j].pos]) } }

SetMax(S) == CHOOSE x \in S : \A y \in S : y <= x

\* A search has answered with a tool list.
Answered(t) == pc[t] = "done" /\ req[t].kind = "search" /\ resp[t].status = 200

NamesOnce(found) ==
    \A i, j \in 1..Len(found) : found[i].tool.name = found[j].tool.name => i = j

\* C11 (as stated): each tool name appears at most once in the result and
\* the score reported for a tool equals the maximum score of the raw hits of
\* its representations that pass the threshold and the category filter.
C11_ScoreIsMaxOfHits ==
    \A t \in Threads : Answered(t) =>
        /\ NamesOnce(resp[t].tools)
        /\ \A i \in 1..Len(resp[t].tools) :
              LET e == resp[t].tools[i]
                  ps == PassingScores(heap[cur], req[t], e.tool.name)
              IN ps # {} /\ e.score = SetMax(ps)

\* C11 (amended): each tool name appears at most once in the result and
\* the score reported for a tool is the maximum score of its passing raw
\* hits rounded to 4 decimal places.
C11_ScoreIsRoundedMaxOfHits ==
    \A t \in Threads : Answered(t) =>
        /\ NamesOnce(resp[t].tools)
        /\ \A i \in 1..Len(resp[t].tools) :
              LET e == resp[t].tools[i]
                  ps == PassingScores(heap[cur], req[t], e.tool.name)
              IN ps # {} /\ e.score = Round4(SetMax(ps))

\* A tool with two passing hits of different scores is in the result.
C11_Witness ==
    \E t \in Threads :
        /\ Answered(t)
        /\ \E i \in 1..Len(resp[t].tools) :
              Cardinality(PassingScores(heap[cur], req[t], resp[t].tools[i].tool.name)) >= 2

\* C12: a search with a category filter never returns a tool whose category
\* differs from the filter compared case-insensitively; a tool without
\* category is never returned.
C12_CategoryFilterHolds ==
    \A t \in Threads : (Answered(t) /\ req[t].category # NoCategory) =>
        \A i \in 1..Len(resp[t].tools) :
            LET c == resp[t].tools[i].tool.category IN
            c # NoCategory /\ Lower(c) = Lower(req[t].category)

\* A filtered search returned a tool whose category is written in another
\* case than the filter while the catalogue holds a tool outside the
\* category.
C12_Witness ==
    \E t \in Threads :
        /\ Answered(t) /\ req[t].category = "TRADING"
        /\ \E i \in 1..Len(resp[t].tools) : resp[t].tools[i].tool.category = "trading"
        /\ \E j \in 1..Len(catalogue) : ~CategoryPasses("TRADING", catalogue[j])

RECURSIVE FoundNames(_)
FoundNames(found) ==
    IF found = <<>> THEN {} ELSE {Head(found).tool.name} \cup FoundNames(Tail(found))

Thresholds == {r.threshold : r \in RichInputs}

\* C13: for the same index, query, top_k and category, the tools returned
\* at a threshold are among the tools returned at every lower threshold.
C13_ThresholdMonotone ==
    \A t \in Threads : Answered(t) =>
        \A T1 \in Thresholds : T1 < req[t].threshold =>
            FoundNames(resp[t].tools) \subseteq
                FoundNames(SearchOn(heap[cur], [req[t] EXCEPT !.threshold = T1]))

\* A search returned tools, and a lower threshold returns more of them.
C13_Witness ==
    \E t \in Threads :
        /\ Answered(t) /\ resp[t].tools # <<>>
        /\ \E T1 \in Thresholds :
              /\ T1 < req[t].threshold
              /\ Len(SearchOn(heap[cur], [req[t] EXCEPT !.threshold = T1]))
                    > Len(resp[t].tools)

\* C14: the returned list is ordered by score non-increasing and holds at
\* most top_k entries, top_k being the requested value capped at 20.
C14_SortedAndTruncated ==
    \A t \in Threads : Answered(t) =>
        /\ Len(resp[t].tools) <= Min(req[t].top_k, TopKCeiling)
        /\ \A i, j \in 1..Len(resp[t].tools) :
              i < j => resp[t].tools[i].score >= resp[t].tools[j].score

\* A search asking for more than the ceiling got exactly the ceiling, out
\* of a catalogue with more tools passing.
C14_Witness ==
    \E t \in Threads :
        /\ Answered(t) /\ req[t].top_k > TopKCeiling
        /\ Len(resp[t].tools) = TopKCeiling /\ Len(catalogue) > TopKCeiling

\* The best score of a tool of the catalogue against query q, over all
\* its representations.
BestScore(q, tool) ==
    SetMax({Score(q, Embed(ToolTexts(tool)[i])) : i \in 1..Len(ToolTexts(tool))})

\* The rows of the catalogue a search with request r may return.
Eligible(r) ==
    { i \in 1..Len(catalogue) :
        /\ CategoryPasses(r.category, catalogue[i])
        /\ BestScore(r.query, catalogue[i]) >= r.threshold }

\* C15: a search with a category returns the top_k highest-scoring tools
\* among the tools of that category whose best score meets the threshold.
C15_FilterBeforeRanking ==
    \A t \in Threads : (Answered(t) /\ req[t].category # NoCategory) =>
        LET r == req[t]
            names == FoundNames(resp[t].tools)
        IN /\ Len(resp[t].tools) = Min(TopK(r), Cardinality(Eligible(r)))
           /\ \A i \in 1..Len(catalogue) :
                 catalogue[i].name \in names => i \in Eligible(r)
           /\ \A i, j \in Eligible(r) :
                 (catalogue[i].name \in names /\ catalogue[j].name \notin names)
                    => BestScore(r.query, catalogue[i]) >= BestScore(r.query, catalogue[j])

HasExample(tool, e) == \E k \in 1..Len(tool.examples) : tool.examples[k] = e

\* C16: after a tool with example e is registered and the index rebuilt, a
\* search for exactly e without category and with a threshold of at most 1
\* returns the tool with the maximal score, when fewer than top_k other
\* tools have a representation identical to e.
C16_ExactExampleFound ==
    \A t \in Threads :
        (Answered(t) /\ req[t].category = NoCategory /\ req[t].threshold <= ScoreUnit) =>
            \A i \in 1..Len(catalogue) :
                (/\ HasExample(catalogue[i], req[t].query)
                 /\ Cardinality({j \in 1..Len(catalogue) \ {i} :
                        HasExample(catalogue[j], req[t].query)}) < TopK(req[t]))
                => \E k \in 1..Len(resp[t].tools) :
                      /\ resp[t].tools[k].tool.name = catalogue[i].name
                      /\ resp[t].tools[k].score = ScoreUnit

BlankTexts == {"", " "}

\* C18: a built index holds no entry for a blank example text.
C18_NoBlankRepresentation ==
    \A o \in ObjIds : heap[o].built =>
        \A i \in 1..Len(heap[o].vecs) :
            heap[o].vecs[i].of.kind = "ex" => heap[o].vecs[i].of.s \notin BlankTexts

\* C17: when the provider returns vectors of different lengths to a build,
\* the build fails as a whole: the exception reaches the handler and the
\* step changes no index object, so none gets built from part of the
\* representations.
C17_RaggedBatchFailsBuild ==
    [][\A t \in Threads :
          (pc[t] = "r_build" /\ exc'[t] = "dimension") =>
              /\ pc'[t] = "except"
              /\ \A o \in ObjIds : heap'[o].built => heap'[o] = heap[o]]_vars

\* A build was given vectors of different lengths.
C17_Witness ==
    \E t \in Threads :
        pc[t] = "except" /\ exc[t] = "dimension" /\ tools[t] # <<>> /\ ~heap[cur].built

\* ------------------------------------------------- vectors as numbers
\* The vectors of this part are pairs of integers whose length is an
\* integer, so that normalisation is exact: a normalised vector is
\* (x / n, y / n), kept as [x, y, n].  The providers return no zero vector
\* (lines 272-281: encode(..., normalize_embeddings=True)).
RawVectors ==
    { <<3, 4>>, <<0 - 4, 3>>, <<5, 12>>, <<0, 2>>, <<8, 0 - 6>>, <<0 - 1, 0>> }

MaxVectors == 2       \* vectors of a batch

RawBatches == UNION { [1..n -> RawVectors] : n \in 1..MaxVectors }

Length(v) == CHOOSE n \in 0..(v[1] * v[1] + v[2] * v[2]) : n * n = v[1] * v[1] + v[2] * v[2]

\* A vector stored or compared as it is, normalize_L2 left out.
NotNormalized(v) == [x |-> v[1], y |-> v[2], n |-> 1]

\* faiss.normalize_L2 (build line 121, search line 148): each row divided
\* by its length, a zero row left as it is.
NormalizeL2(v) ==
    IF Length(v) = 0 THEN [x |-> 0, y |-> 0, n |-> 1]
    ELSE [x |-> v[1], y |-> v[2], n |-> Length(v)]

\* IndexFlatIP: the inner product of two stored vectors, as a fraction.
InnerProduct(u, v) == [num |-> u.x * v.x + u.y * v.y, den |-> u.n * v.n]

\* build, lines 117-128, on the vectors the provider returned.
BuildVectors(t) ==
    \E batch \in RawBatches :
        /\ t = FirstIdle /\ \A u \in Threads : pc[u] = "idle"
        /\ ~heap[cur].built
        /\ heap' = [heap EXCEPT ![cur] =
                      [built |-> TRUE, hasidx |-> TRUE,
                       vecs |-> [i \in 1..Len(batch) |-> NormalizeL2(batch[i])],
                       index_to_tool |-> <<>>, dimension |-> 2, tool_count |-> 0]]
        /\ pc' = [pc EXCEPT ![t] = "done"]
        /\ UNCHANGED <<catalogue, cur, req, locals, resp, nreq, history>>
        /\ UNCHANGED updater

\* search, lines 147-152, on the vector the provider returned for the
\* query: the scores of the stored vectors.
SearchVectors(t) ==
    \E q \in RawVectors :
        /\ t = FirstIdle /\ \A u \in Threads : pc[u] = "idle"
        /\ heap[cur].built
        /\ hits' = [hits EXCEPT ![t] =
                      [i \in 1..Len(heap[cur].vecs) |->
                          [score |-> InnerProduct(NormalizeL2(q), heap[cur].vecs[i]),
                           pos |-> i]]]
        /\ pc' = [pc EXCEPT ![t] = "done"]
        /\ UNCHANGED <<catalogue, cur, heap, req, tools, self, idx, exc, resp, nreq, history>>
        /\ UNCHANGED updater

NextVectors ==
    \E t \in Threads : BuildVectors(t) \/ SearchVectors(t) \/ Finish(t)

SpecVectors == InitAlone /\ [][NextVectors]_vars

\* C20: every vector stored in a built index has magnitude 1, and every
\* score, the inner product with the normalised query vector, lies in
\* [-1, 1].
C20_UnitVectors ==
    /\ \A o \in ObjIds : heap[o].built =>
          \A i \in 1..Len(heap[o].vecs) :
              LET v == heap[o].vecs[i] IN v.x * v.x + v.y * v.y = v.n * v.n
    /\ \A t \in Threads : \A i \in 1..Len(hits[t]) :
          LET sc == hits[t][i].score IN
          sc.den > 0 /\ 0 - sc.den <= sc.num /\ sc.num <= sc.den

\* A search scored a stored vector the provider returned longer than 1,
\* and the score is negative.
C20_Witness ==
    \E t \in Threads : \E i \in 1..Len(hits[t]) :
        /\ hits[t][i].score.num < 0
        /\ heap[cur].vecs[hits[t][i].pos].n > 1


\* C22: a search without category returns exactly min(top_k, n) tools, n
\* being the number of tools of the index with a representation scoring at
\* or above the threshold, and they are the best of those n by best score.
C22_NoQualifyingToolMissed ==
    \A t \in Threads : (Answered(t) /\ req[t].category = NoCategory) =>
        LET r == req[t]
            names == FoundNames(resp[t].tools)
        IN /\ Len(resp[t].tools) = Min(TopK(r), Cardinality(Eligible(r)))
           /\ \A i, j \in Eligible(r) :
                 (catalogue[i].name \in names /\ catalogue[j].name \notin names)
                    => BestScore(r.query, catalogue[i]) >= BestScore(r.query, catalogue[j])

\* The number of vectors a build makes of the tools ts[1..n]: one for the
\* description and one for each example of every tool.
RECURSIVE VectorsOf(_, _)
VectorsOf(ts, n) == IF n = 0 THEN 0 ELSE VectorsOf(ts, n - 1) + 1 + Len(ts[n].examples)

\* C23: after a successful build over a tool list the index holds the sum
\* over the tools of (1 + number of examples) vectors, the metadata list has
\* that length, tool_count is the number of tools, and the vectors of a tool
\* are its description followed by its examples in order, each with the
\* tool's metadata at its position.
C23_BuildLayout ==
    heap[cur].built =>
        LET obj == heap[cur] IN
        /\ Len(obj.vecs) = VectorsOf(catalogue, Len(catalogue))
        /\ Len(obj.index_to_tool) = Len(obj.vecs)
        /\ obj.tool_count = Len(catalogue)
        /\ \A i \in 1..Len(catalogue) :
              LET first == VectorsOf(catalogue, i - 1) + 1 IN
              /\ obj.index_to_tool[first] = catalogue[i]
              /\ obj.vecs[first].of.kind = "desc"
              /\ obj.vecs[first].of.name = catalogue[i].name
              /\ obj.vecs[first].of.s = catalogue[i].description
              /\ \A e \in 1..Len(catalogue[i].examples) :
                    /\ obj.index_to_tool[first + e] = catalogue[i]
                    /\ obj.vecs[first + e].of.kind = "ex"
                    /\ obj.vecs[first + e].of.s = catalogue[i].examples[e]

\* An index built over two tools, the first with several examples.
C23_Witness ==
    /\ heap[cur].built
    /\ Len(catalogue) = 2
    /\ Len(catalogue[1].examples) > 1
    /\ Len(catalogue[2].examples) = 1

\* C24: once an index object is built, no step changes its vectors, its
\* metadata list, its dimension or its tool_count for as long as the object
\* is referenced; a rebuild works on a fresh object only.
C24_BuiltIsFrozen ==
    [][\A o \in ObjIds :
          (heap[o].built /\ o \in Refs(cur', self', idx')) =>
              /\ heap'[o].vecs = heap[o].vecs
              /\ heap'[o].index_to_tool = heap[o].index_to_tool
              /\ heap'[o].dimension = heap[o].dimension
              /\ heap'[o].tool_count = heap[o].tool_count]_vars

\* C25: when two concurrent tool mutations have both finished without
\* error, the current index holds exactly the tools of the final catalogue.
C25_LatestSnapshotWins ==
    (\A t \in Threads :
        /\ pc[t] = "done" /\ req[t].kind \in MutationKinds
        /\ resp[t].status \in {200, 201})
    => /\ heap[cur].index_to_tool = AllMappings(catalogue)
       /\ heap[cur].tool_count = Len(catalogue)

Reported(t) == pc[t] = "done" /\ req[t].kind = "status" /\ resp[t].status = 200

\* C26: every status report is consistent, also when taken during a rebuild:
\* index_built false comes with total_vectors = 0 and tools_indexed = 0, and
\* index_built true with the counts of one completely built index.
C26_StatusConsistent ==
    \A t \in Threads : Reported(t) =>
        LET report == resp[t].tools[1] IN
        IF report.index_built
        THEN \E snap \in AllCatalogues \ {<<>>} :
                /\ report.total_vectors = Len(AllTexts(snap))
                /\ report.tools_indexed = Len(snap)
        ELSE report.total_vectors = 0 /\ report.tools_indexed = 0

\* C27: when a rebuild has failed in the embedding provider and no other
\* request is in flight, the current index is not built, or is the index of
\* the current catalogue; the next search, finding the index not built, runs
\* the rebuild itself; and a search that ran alone, rebuilt the index from a
\* non-empty catalogue and was answered returns the results of the index of
\* the current catalogue, which is then the current index.
C27_SearchRecovers ==
    [][\A t \in Threads :
          /\ (/\ pc[t] = "r_build" /\ pc'[t] = "except"
              /\ \A u \in Threads \ {t} : ~InFlight(u))
                => (heap'[cur'].built => heap'[cur'] = BuildResult(catalogue'))
          /\ (pc[t] = "s_check" /\ pc'[t] # "s_check" /\ alone[t] /\ ~heap[cur].built)
                => pc'[t] = "r_read"
          /\ (/\ ValidSearch(req[t]) /\ alone[t] /\ tools[t] # <<>>
              /\ pc[t] # "done" /\ pc'[t] = "done" /\ resp'[t].status = 200)
                => /\ ~resp'[t].message
                   /\ resp'[t].tools = SearchOn(BuildResult(catalogue), req[t])
                   /\ heap'[cur'] = BuildResult(catalogue)]_vars

\* tmp_register_tool past its db.commit() of line 316: the handler keeps
\* only the kind of its request from there on.
RegisterCommitted(t) == req[t] = MutationReq("register") /\ InFlight(t)

\* C28: a register request that has added its tool to the catalogue is not
\* answered with an error: an answer other than 201 means no tool was added.
C28_ErrorLeavesCatalogue ==
    [][\A t \in Threads :
          (RegisterCommitted(t) /\ pc'[t] = "done") => resp'[t].status = 201]_vars

\* ------------------------------------------------ the catalogue's names
\* The four handlers that change the catalogue, each run alone from its
\* request to its answer with the provider answering, on tools whose names
\* differ in case only or are a wildcard of LIKE.
CaseNames == {"a", "A", "b", "_"}
NamedTools == {Tool(n, d, NoCategory, <<>>) : n \in CaseNames, d \in {"d1", "d2"}}
NamedBatches == UNION { [1..n -> NamedTools] : n \in 1..MaxBatch }

Idle(t) == t = FirstIdle /\ \A u \in Threads : pc[u] = "idle"

\* The handler's answer rsp to request r, the catalogue left as cat and the
\* index rebuilt from it when the handler got that far.
AnswerNamed(t, r, rsp, cat, rebuilt) ==
    /\ req' = [req EXCEPT ![t] = r]
    /\ resp' = [resp EXCEPT ![t] = rsp]
    /\ pc' = [pc EXCEPT ![t] = "done"]
    /\ catalogue' = cat
    /\ heap' = IF rebuilt THEN [heap EXCEPT ![cur] = BuildResult(cat)] ELSE heap
    /\ UNCHANGED <<cur, tools, self, idx, hits, exc, nreq, history>>
    /\ UNCHANGED updater

\* tmp_register_tool, lines 267-325
RegisterNamed(t) ==
    \E td \in NamedTools :
        LET r == Req("register", td, <<>>, "", 0, 0, NoCategory) IN
        /\ Idle(t)
        /\ IF RowOf(catalogue, td.name) # 0
           THEN AnswerNamed(t, r, Response(409, "exists", FALSE, <<>>), catalogue, FALSE)
           ELSE IF UniqueViolated(Append(catalogue, td))
           THEN AnswerNamed(t, r, Response(500, "integrity", FALSE, <<>>), catalogue, FALSE)
           ELSE AnswerNamed(t, r, Response(201, "", FALSE, <<>>),
                            Append(catalogue, td), TRUE)

\* tmp_update_tool, lines 335-385: the columns of the body are set, the name
\* is not
UpdateNamed(t) ==
    \E td \in NamedTools :
        LET r == Req("update", td, <<>>, "", 0, 0, NoCategory)
            at == RowOf(catalogue, td.name)
        IN /\ Idle(t)
           /\ IF at = 0
              THEN AnswerNamed(t, r, Response(404, "not_found", FALSE, <<>>),
                               catalogue, FALSE)
              ELSE AnswerNamed(t, r, Response(200, "", FALSE, <<>>),
                               [catalogue EXCEPT ![at].description = td.description],
                               TRUE)

\* tmp_delete_tool, lines 395-409
DeleteNamed(t) ==
    \E n \in CaseNames :
        LET r == Req("delete", Tool(n, "", NoCategory, <<>>), <<>>, "", 0, 0, NoCategory)
            at == RowOf(catalogue, n)
        IN /\ Idle(t)
           /\ IF at = 0
              THEN AnswerNamed(t, r, Response(404, "not_found", FALSE, <<>>),
                               catalogue, FALSE)
              ELSE AnswerNamed(t, r, Response(200, "", FALSE, <<>>),
                               RemoveAt(catalogue, at), TRUE)

\* tmp_register_batch, lines 432-519, with a session that flushes before a
\* query or one that does not; the commit of line 506 raises when the rows
\* violate the unique index, and the except clause rolls back.
BatchNamed(t) ==
    \E entries \in NamedBatches : \E autoflush \in BOOLEAN :
        LET r == Req("batch", BlankTool, entries, "", 0, 0, NoCategory)
            cat == IF autoflush THEN ApplyBatch(catalogue, entries)
                   ELSE ApplyBatchUnflushed(catalogue, entries, Len(catalogue))
        IN /\ Idle(t)
           /\ IF UniqueViolated(cat)
              THEN AnswerNamed(t, r, Response(500, "integrity", FALSE, <<>>),
                               catalogue, FALSE)
              ELSE AnswerNamed(t, r, Response(201, "", FALSE, <<>>), cat, TRUE)

NextNames ==
    \E t \in Threads :
        RegisterNamed(t) \/ UpdateNamed(t) \/ DeleteNamed(t) \/ BatchNamed(t) \/ Finish(t)

SpecNames == InitAlone /\ [][NextNames]_vars

\* a row of cat has the name, case set aside
HasName(cat, name) == \E i \in 1..Len(cat) : NameFold(cat[i].name) = NameFold(name)

\* C29: after every register, update, delete and batch import no two tools
\* of the catalogue have names equal but for case; registering a name equal
\* but for case to a tool's is answered 409 and leaves catalogue and index
\* as they were; and a batch entry with such a name, the import answered 201,
\* leaves the tool in its row under its name, with the description of an
\* entry of the batch, and adds no row.
C29_NamesUniqueFolded ==
    [][/\ ~UniqueViolated(catalogue')
       /\ \A t \in Threads :
             (/\ pc[t] = "idle" /\ pc'[t] = "done" /\ req'[t].kind = "register"
              /\ HasName(catalogue, req'[t].tool.name))
             => /\ resp'[t].status = 409
                /\ catalogue' = catalogue /\ heap' = heap /\ cur' = cur
       /\ \A t \in Threads :
             (/\ pc[t] = "idle" /\ pc'[t] = "done" /\ req'[t].kind = "batch"
              /\ resp'[t].status = 201)
             => \A k \in 1..Len(req'[t].batch) : \A i \in 1..Len(catalogue) :
                   NameFold(catalogue[i].name) = NameFold(req'[t].batch[k].name)
                   => /\ catalogue'[i].name = catalogue[i].name
                      /\ \E m \in 1..Len(req'[t].batch) :
                            catalogue'[i].description = req'[t].batch[m].description
                      /\ \A j \in 1..Len(catalogue') :
                            NameFold(catalogue'[j].name) = NameFold(catalogue[i].name)
                            => j = i]_vars

\* ======================================================= the smart updater
\* app/smart_updater.py.  Time is counted in seconds.  A loop thread blocked
\* in a call (a fetch, a database query, a wait on _stop_event) holds the
\* time the call returns in its wake field; the clock moves only when no
\* thread can take a step, so every step is taken at the moment it is due.
CHASE_OFFSETS == <<30, 90, 900>>
HorizonSeconds == 14400
PeriodicSeconds == 14400
WindowBehind == 5
WindowAhead == 15
ChasePause == 5
LoopWait == 10
JoinTimeout == 5

MaxClock == 50
MaxCalls == 3
EventSets == {{3}, {20}, {3, 20}}
\* fetch_economic_events answers at once or after longer than a join waits
\* (news_client.py line 57 lets a request take up to 30 seconds).
FetchSeconds == {1, 8}
\* the query of _get_upcoming_event_times answers at once or slowly
QuerySeconds == {0, 20}

SetMin(S) == CHOOSE x \in S : \A y \in S : x <= y

RECURSIVE Ascending(_)
Ascending(S) == IF S = {} THEN <<>> ELSE <<SetMin(S)>> \o Ascending(S \ {SetMin(S)})

\* _get_upcoming_event_times, lines 229-248: the distinct event times from
\* now_utc to now_utc + horizon, in ascending order.
UpcomingEventTimes(now_utc) ==
    Ascending({e \in events : e >= now_utc /\ e <= now_utc + HorizonSeconds})

\* the iterations of the two for loops of _do_chase_cycle, lines 277-281
RECURSIVE ChasePairs(_)
ChasePairs(times) ==
    IF times = <<>> THEN <<>>
    ELSE [i \in 1..Len(CHASE_OFFSETS) |-> <<Head(times), CHASE_OFFSETS[i]>>]
         \o ChasePairs(Tail(times))

\* line 287: -5 <= diff <= 15
InWindow(diff) == -WindowBehind <= diff /\ diff <= WindowAhead

Alive(l) == loop[l].pc \notin {"none", "dead"}
\* property running, lines 157-159
Running == thread # NoThread /\ Alive(thread)
\* positions blocked in _stop_event.wait, which a set() ends at once
Waiting == {"waitchase", "pause", "sleep"}
Due(l) == /\ Alive(l)
          /\ \/ clock >= loop[l].wake
             \/ stop_event /\ loop[l].pc \in Waiting
JoinOver == caller.op = "join" /\ (~Alive(thread) \/ clock >= caller.deadline)

\* _run_loop line 207 and the in-loop call of line 214: _do_periodic begins
\* its fetch (_update_week_range, lines 84-110).
LoopPeriodic(l) ==
    /\ loop[l].pc \in {"start", "periodic"}
    /\ Due(l)
    /\ \E d \in FetchSeconds :
        loop' = [loop EXCEPT ![l].pc = "fetching", ![l].wake = clock + d,
                             ![l].next = IF loop[l].pc = "start" THEN "check" ELSE "cycle"]
    /\ UNCHANGED <<engine, clock, events, enabled, stop_event, thread, last_periodic,
                   caller, chased, since, calls>>

\* _do_periodic line 226: the fetch is back, _last_periodic is set.
PeriodicDone(l) ==
    /\ loop[l].pc = "fetching"
    /\ Due(l)
    /\ last_periodic' = clock
    /\ loop' = [loop EXCEPT ![l].pc = loop[l].next]
    /\ UNCHANGED <<engine, clock, events, enabled, stop_event, thread,
                   caller, chased, since, calls>>

\* the while test of line 209 and the periodic test of line 213
LoopCheck(l) ==
    /\ loop[l].pc = "check"
    /\ Due(l)
    /\ loop' = [loop EXCEPT ![l].pc =
                    IF stop_event THEN "dead"
                    ELSE IF last_periodic = Never \/ clock - last_periodic >= PeriodicSeconds
                         THEN "periodic" ELSE "cycle"]
    /\ UNCHANGED <<engine, clock, events, enabled, stop_event, thread, last_periodic,
                   caller, chased, since, calls>>

\* _do_chase_cycle lines 266-271: the query for the upcoming event times is
\* sent, with now_utc the time of sending (line 231).
CycleQuery(l) ==
    /\ loop[l].pc = "cycle"
    /\ Due(l)
    /\ \E d \in QuerySeconds :
        loop' = [loop EXCEPT ![l].pc = "query", ![l].wake = clock + d,
                             ![l].todo = ChasePairs(UpcomingEventTimes(clock))]
    /\ UNCHANGED <<engine, clock, events, enabled, stop_event, thread, last_periodic,
                   caller, chased, since, calls>>

\* lines 272-275: nothing upcoming returns to the wait of line 220,
\* otherwise now is read.
CycleNow(l) ==
    /\ loop[l].pc = "query"
    /\ Due(l)
    /\ loop' = IF loop[l].todo = <<>>
               THEN [loop EXCEPT ![l].pc = "sleep", ![l].wake = clock + LoopWait]
               ELSE [loop EXCEPT ![l].pc = "scan", ![l].now = clock]
    /\ UNCHANGED <<engine, clock, events, enabled, stop_event, thread, last_periodic,
                   caller, chased, since, calls>>

\* line 294, _chase_event_time begins its fetch: the chase of the pair.
BeginChase(l, pair) ==
    /\ \E d \in FetchSeconds :
        loop' = [loop EXCEPT ![l].pc = "chasing", ![l].wake = clock + d]
    /\ chased' = chased \cup {<<pair[1], pair[2], clock>>}

\* lines 277-292: one iteration of the inner for loop, up to the wait or the
\* chase it starts; the stop test of line 278 is made at each event's first
\* offset.
CycleScan(l) ==
    /\ loop[l].pc = "scan"
    /\ Due(l)
    /\ IF loop[l].todo = <<>>
       THEN /\ loop' = [loop EXCEPT ![l].pc = "sleep", ![l].wake = clock + LoopWait]
            /\ UNCHANGED chased
       ELSE LET pair == Head(loop[l].todo)
                diff == pair[1] + pair[2] - loop[l].now
            IN IF pair[2] = CHASE_OFFSETS[1] /\ stop_event
               THEN /\ loop' = [loop EXCEPT ![l].pc = "sleep", ![l].wake = clock + LoopWait]
                    /\ UNCHANGED chased
               ELSE IF ~InWindow(diff)
               THEN /\ loop' = [loop EXCEPT ![l].todo = Tail(loop[l].todo)]
                    /\ UNCHANGED chased
               ELSE IF diff > 0
               THEN /\ loop' = [loop EXCEPT ![l].pc = "waitchase", ![l].wake = clock + diff]
                    /\ UNCHANGED chased
               ELSE BeginChase(l, pair)
    /\ UNCHANGED <<engine, clock, events, enabled, stop_event, thread, last_periodic,
                   caller, since, calls>>

\* lines 290-294: the wait before a chase is over.
ChaseWaitOver(l) ==
    /\ loop[l].pc = "waitchase"
    /\ Due(l)
    /\ IF stop_event
       THEN /\ loop' = [loop EXCEPT ![l].pc = "sleep", ![l].wake = clock + LoopWait]
            /\ UNCHANGED chased
       ELSE BeginChase(l, Head(loop[l].todo))
    /\ UNCHANGED <<engine, clock, events, enabled, stop_event, thread, last_periodic,
                   caller, since, calls>>

\* lines 295-306: the chase is back; pause 5 seconds unless stopped.
ChaseDone(l) ==
    /\ loop[l].pc = "chasing"
    /\ Due(l)
    /\ loop' = IF stop_event
               THEN [loop EXCEPT ![l].pc = "scan", ![l].todo = Tail(loop[l].todo)]
               ELSE [loop EXCEPT ![l].pc = "pause", ![l].wake = clock + ChasePause,
                                 ![l].todo = Tail(loop[l].todo)]
    /\ UNCHANGED <<engine, clock, events, enabled, stop_event, thread, last_periodic,
                   caller, chased, since, calls>>

\* line 306 returns: on to the next offset.
PauseOver(l) ==
    /\ loop[l].pc = "pause"
    /\ Due(l)
    /\ loop' = [loop EXCEPT ![l].pc = "scan"]
    /\ UNCHANGED <<engine, clock, events, enabled, stop_event, thread, last_periodic,
                   caller, chased, since, calls>>

\* line 220 returns: back to the while test.
SleepOver(l) ==
    /\ loop[l].pc = "sleep"
    /\ Due(l)
    /\ loop' = [loop EXCEPT ![l].pc = "check"]
    /\ UNCHANGED <<engine, clock, events, enabled, stop_event, thread, last_periodic,
                   caller, chased, since, calls>>

\* start, lines 187-193, past its running test: clear the event, create and
\* start a thread.
StartThread ==
    \E l \in LoopIds :
        /\ ~Alive(l)
        /\ \A m \in LoopIds : ~Alive(m) => l <= m
        /\ stop_event' = FALSE
        /\ thread' = l
        /\ loop' = [loop EXCEPT ![l] = LoopAt("start", clock, 0, <<>>, "")]
        /\ since' = clock

CanCall == caller = NoCall /\ calls < MaxCalls

\* start(), lines 187-193
Start ==
    /\ CanCall
    /\ calls' = calls + 1
    /\ IF Running
       THEN UNCHANGED <<stop_event, thread, loop, since>>
       ELSE StartThread
    /\ UNCHANGED <<engine, clock, events, enabled, last_periodic, caller, chased>>

\* enable(), lines 175-178
Enable ==
    /\ CanCall
    /\ calls' = calls + 1
    /\ enabled' = TRUE
    /\ IF Running
       THEN UNCHANGED <<stop_event, thread, loop, since>>
       ELSE StartThread
    /\ UNCHANGED <<engine, clock, events, last_periodic, caller, chased>>

\* disable(), lines 180-184: clear the flag, set the event, join the thread
\* for at most 5 seconds.
Disable ==
    /\ CanCall
    /\ calls' = calls + 1
    /\ enabled' = FALSE
    /\ stop_event' = TRUE
    /\ since' = Never
    /\ IF Running
       THEN /\ caller' = [op |-> "join", deadline |-> clock + JoinTimeout]
            /\ UNCHANGED thread
       ELSE /\ thread' = NoThread
            /\ UNCHANGED caller
    /\ UNCHANGED <<engine, clock, events, last_periodic, loop, chased>>

\* disable(), lines 184-185: join returns, the thread has ended or not, and
\* _thread is forgotten.
DisableJoined ==
    /\ JoinOver
    /\ thread' = NoThread
    /\ caller' = NoCall
    /\ UNCHANGED <<engine, clock, events, enabled, stop_event, last_periodic, loop,
                   chased, since, calls>>

\* time passes while every thread is blocked and no call is in progress
Tick ==
    /\ clock < MaxClock
    /\ \A l \in LoopIds : ~Due(l)
    /\ ~JoinOver
    /\ clock' = clock + 1
    /\ UNCHANGED <<engine, events, enabled, stop_event, thread, last_periodic, loop,
                   caller, chased, since, calls>>

InitUpdater ==
    /\ catalogue = <<>>
    /\ cur = 1
    /\ heap = [o \in ObjIds |-> FreshObj]
    /\ pc = [t \in Threads |-> "idle"]
    /\ req = [t \in Threads |-> NoReq]
    /\ tools = [t \in Threads |-> <<>>]
    /\ self = [t \in Threads |-> NoObj]
    /\ idx = [t \in Threads |-> NoObj]
    /\ hits = [t \in Threads |-> <<>>]
    /\ exc = [t \in Threads |-> ""]
    /\ resp = [t \in Threads |-> NoResp]
    /\ nreq = 0
    /\ everBuilt = FALSE
    /\ began = [t \in Threads |-> FALSE]
    /\ hadBuilt = [t \in Threads |-> FALSE]
    /\ alone = [t \in Threads |-> FALSE]
    /\ NewUpdater
    /\ events \in EventSets

NextUpdater ==
    \/ Start \/ Enable \/ Disable \/ DisableJoined \/ Tick
    \/ \E l \in LoopIds :
        \/ LoopPeriodic(l) \/ PeriodicDone(l) \/ LoopCheck(l)
        \/ CycleQuery(l) \/ CycleNow(l) \/ CycleScan(l)
        \/ ChaseWaitOver(l) \/ ChaseDone(l) \/ PauseOver(l) \/ SleepOver(l)

SpecUpdater == InitUpdater /\ [][NextUpdater]_vars

\* C21: while the updater stays enabled and its loop running, every event
\* scheduled within the chase horizon after the loop started has been chased
\* at T+30s, T+90s and T+15min once those moments (and the loop's 15-second
\* window) have passed.
C21_ChasesPerformed ==
    (enabled /\ since # Never /\ Running) =>
        \A e \in events : \A i \in 1..Len(CHASE_OFFSETS) :
            (e >= since /\ e <= since + HorizonSeconds
             /\ clock > e + CHASE_OFFSETS[i] + WindowAhead)
            => \E c \in chased : c[1] = e /\ c[2] = CHASE_OFFSETS[i]

\* C30: after any sequence of start(), enable() and disable() calls at most
\* one updater loop thread is alive; an old loop never runs next to a new one.
C30_AtMostOneLoop == Cardinality({l \in LoopIds : Alive(l)}) <= 1

====
